---- MODULE Spec2Model ----
(***************************************************************************)
(* A model of the hand-driven particle field: the engine tick              *)
(* (ParticleSystem.update), the focus popup (onClick / updatePopup), the   *)
(* shape target provider (generateShape / setShape), the photo atlas       *)
(* counters, the hand tracker (HandTracker.handleResults /                 *)
(* updateHandState / getState) and the pose hand-off of main.js.           *)
(*                                                                         *)
(* Representation.  JavaScript numbers are modelled in fixed point:        *)
(*   - time (dt, uTime, popupState.timer) in frames of 1/Second s;         *)
(*   - the blend uState in units of 1/BlendScale;                          *)
(*   - positions, scales and the popup factor in units of 1/Milli.         *)
(* Products are divided with truncation toward zero (TDiv).  Values drawn  *)
(* from Math.random() are nondeterministic choices.  Target positions and  *)
(* colours are recorded by the generation branch that wrote them.          *)
(***************************************************************************)
EXTENDS Integers, Sequences, FiniteSets, TLC

(***************************************************************************)
(* Bounds of the model.                                                    *)
(***************************************************************************)
NumParticles == 2        \* particleCount of the model (90000 in the code)
MaxClock == 90           \* the clock at which Spec stops (1.5 s)
MaxPopupClock == 96      \* the clock at which PopupSpec stops (1.6 s)
MaxBlendClock == 240     \* the clock at which BlendSpec stops (4 s)
MaxHoldClock == 600      \* the clock at which HoldSpec stops (10 s)
MaxAdded == 1            \* photos added by addPhotoToAtlas in the model
MaxTrackClock == 90      \* the clock at which TrackSpec stops (1.5 s)
MaxGestureClock == 60    \* the clock at which GestureSpec stops (1 s)
MaxScale == 3            \* the largest factor a landmark frame is scaled by
NumFiles == 2
MaxLiveClock == 60       \* the clock at which LiveSpec stops clicks (1 s)

(***************************************************************************)
(* Resolution of the fixed-point representation.                           *)
(***************************************************************************)
Second == 60
BlendScale == 1000000
Milli == 1000

(***************************************************************************)
(* Program constants.                                                      *)
(***************************************************************************)
atlasCols == 8
atlasRows == 8
InitialPhotos == 8
MaxTries == 100
LerpSpeedDen == 2        \* lerpSpeed = 0.5 = 1 / LerpSpeedDen
EaseIn == 18             \* 0.3 s
HoldEnd == 72            \* 1.2 s
totalDuration == 90      \* 1.5 s

Ids == 0 .. (NumParticles - 1)
BufLen == 3 * NumParticles

VARIABLES
    uTime,              \* material.uniforms.uTime (frames)
    handData,           \* main.js: the latest pose delivered by the tracker
    isClosed,           \* ParticleSystem.isClosed
    uState,             \* material.uniforms.uState, the blend (1/BlendScale)
    smoothedHandPos,    \* smoothedHandPos = uHandPos, <<x, y>> (1/Milli)
    smoothedHandRot,    \* smoothedHandRot = uHandRotation (class of quaternion)
    smoothedHandScale,  \* smoothedHandScale = uScale (1/Milli)
    slerpFactor,        \* the factor of the last smoothedHandRot.slerp (hundredths)
    currentShape,       \* ParticleSystem.currentShape
    color,              \* ParticleSystem.color (theme colour)
    aTargetPos,         \* attribute buffer, 3 entries per particle
    aColor,             \* attribute buffer, 3 entries per particle
    aRandom,            \* attribute, per particle
    aIsPhoto,           \* attribute, per particle
    aID,                \* attribute, per particle
    aImgOffset,         \* attribute, per particle: <<col, flipped row>>
    aSize,              \* attribute, per particle
    photoCount,
    nextPhotoSlot,
    popupState,         \* [active, timer, startPos, id]
    uClickedID,         \* material.uniforms.uClickedID
    popupMesh,          \* [visible, imgOffset, position, scale]
    popupFactor,        \* the factor last computed by updatePopup (1/Milli)
    genTrace,           \* write indices and write counts of the last generateShape
    tracker,            \* HandTracker: [results, isClosed, handPosition, rotation, handScale]
    upload,             \* UI: database connection, restore and the file batch of handleFiles
    lastOp              \* [op, arg]: the operation that produced the state

engineVars == <<uTime, isClosed, uState, smoothedHandPos, smoothedHandRot,
                smoothedHandScale, slerpFactor>>
shapeVars == <<currentShape, color, aTargetPos, aColor, genTrace>>
staticVars == <<aRandom, aIsPhoto, aID, aSize>>
photoVars == <<aImgOffset, photoCount, nextPhotoSlot>>
focusVars == <<popupState, uClickedID, popupMesh, popupFactor>>
vars == <<engineVars, handData, shapeVars, staticVars, photoVars, focusVars,
          tracker, upload, lastOp>>

(***************************************************************************)
(* Arithmetic helpers.                                                     *)
(***************************************************************************)
Abs(x) == IF x < 0 THEN -x ELSE x

\* Division truncating toward zero, for a positive divisor.
TDiv(a, b) == IF a >= 0 THEN a \div b ELSE -((-a) \div b)

Min(a, b) == IF a < b THEN a ELSE b
Max(a, b) == IF a > b THEN a ELSE b

\* The record of the last operation: its name and its argument or outcome.
Op(name, arg) == [op |-> name, arg |-> arg]

(***************************************************************************)
(* Shape Target Provider: generateShape.                                   *)
(*                                                                         *)
(* The generation state st is [positions, colors, idx, cIdx, posWrites,    *)
(* colWrites]: the two attribute buffers, the two write indices of the     *)
(* code, and (instrumentation) how often each entry was written in this    *)
(* call.  An entry holds <<i, tag>>: the particle whose iteration wrote it *)
(* and the branch (or colour) that produced the value.                     *)
(***************************************************************************)
allowedShapes == {"heart", "planet", "star", "tree"}

\* The shapes the README advertises, and the ids the model passes to setShape.
AdvertisedShapes == {"heart", "flower", "star", "planet", "buddha", "fireworks"}
ShapeIds == AdvertisedShapes \cup {"tree", "unknown"}

\* The outcomes of the random draws of one particle's iteration, per shape.
PlanetParts == {"core", "ring", "arc", "moon"}
TreeParts == {"trunk", "topper", "garland", "snow", "red", "gold", "blue", "green"}
Choices(type) ==
    CASE type = "planet" -> PlanetParts
      [] type = "tree" -> TreeParts
      [] OTHER -> {"only"}

\* A typed array ignores a write past its end.
Store(buf, i, v) == IF i < Len(buf) THEN [buf EXCEPT ![i + 1] = v] ELSE buf
Count(w, i) == IF i \in DOMAIN w THEN [w EXCEPT ![i] = @ + 1] ELSE w

\* positions[idx++] = v
PutPos(st, v) ==
    [st EXCEPT !.positions = Store(@, st.idx, v),
               !.posWrites = Count(@, st.idx),
               !.idx = @ + 1]

\* positions[idx++] = x; positions[idx++] = y; positions[idx++] = z
PutPos3(st, v) == PutPos(PutPos(PutPos(st, v), v), v)

\* colors[cIdx++] = r; colors[cIdx++] = g; colors[cIdx++] = b
setRGB(st, c) ==
    LET put(s) == [s EXCEPT !.colors = Store(@, s.cIdx, c),
                            !.colWrites = Count(@, s.cIdx),
                            !.cIdx = @ + 1]
    IN  put(put(put(st)))

setHex(st, i, hex) == setRGB(st, <<i, hex>>)

GenHeart(st, i, c, col) == PutPos3(setHex(st, i, col), <<i, "heart">>)

GenFlower(st, i, c, col) == PutPos3(setHex(st, i, col), <<i, "flower">>)

GenPlanet(st, i, c, col) ==
    CASE c = "core" -> PutPos3(setRGB(st, <<i, "coreColor">>), <<i, "planet_core">>)
      [] c = "ring" -> PutPos3(setRGB(st, <<i, "ringColor">>), <<i, "planet_ring">>)
      [] c = "arc" -> PutPos3(setRGB(st, <<i, "colorBase">>), <<i, "planet_arc">>)
      [] OTHER -> PutPos3(setRGB(st, <<i, "moonColor">>), <<i, "planet_moon">>)

GenStar(st, i, c, col) == PutPos3(setHex(st, i, col), <<i, "star">>)

\* GenTree whose garland branch lacks its continue and falls through to the
\* foliage writes.
GenTree_noContinue(st, i, c, col) ==
    CASE c = "trunk" -> PutPos3(setHex(st, i, "#4a2e16"), <<i, "tree_trunk">>)
      [] c = "topper" -> PutPos3(setHex(st, i, "#FFD700"), <<i, "tree_star">>)
      [] c = "garland" ->
             PutPos3(setHex(PutPos3(setHex(st, i, "#FFD966"), <<i, "tree_garland">>),
                            i, "#0f5e2f"),
                     <<i, "tree_body">>)
      [] c = "snow" -> PutPos3(setHex(st, i, "#e6f6ff"), <<i, "tree_body">>)
      [] c = "red" -> PutPos3(setHex(st, i, "#FF0000"), <<i, "tree_body">>)
      [] c = "gold" -> PutPos3(setHex(st, i, "#FFD700"), <<i, "tree_body">>)
      [] c = "blue" -> PutPos3(setHex(st, i, "#1E90FF"), <<i, "tree_body">>)
      [] OTHER -> PutPos3(setHex(st, i, "#0f5e2f"), <<i, "tree_body">>)

GenTree(st, i, c, col) ==
    CASE c = "trunk" -> PutPos3(setHex(st, i, "#4a2e16"), <<i, "tree_trunk">>)
      [] c = "topper" -> PutPos3(setHex(st, i, "#FFD700"), <<i, "tree_star">>)
      [] c = "garland" -> PutPos3(setHex(st, i, "#FFD966"), <<i, "tree_garland">>)
      [] c = "snow" -> PutPos3(setHex(st, i, "#e6f6ff"), <<i, "tree_body">>)
      [] c = "red" -> PutPos3(setHex(st, i, "#FF0000"), <<i, "tree_body">>)
      [] c = "gold" -> PutPos3(setHex(st, i, "#FFD700"), <<i, "tree_body">>)
      [] c = "blue" -> PutPos3(setHex(st, i, "#1E90FF"), <<i, "tree_body">>)
      [] OTHER -> PutPos3(setHex(st, i, "#0f5e2f"), <<i, "tree_body">>)

\* One iteration of the loop of the branch selected by type.
GenParticle(type, st, i, c, col) ==
    CASE type = "heart" -> GenHeart(st, i, c, col)
      [] type = "flower" -> GenFlower(st, i, c, col)
      [] type = "planet" -> GenPlanet(st, i, c, col)
      [] type = "star" -> GenStar(st, i, c, col)
      [] type = "tree" -> GenTree(st, i, c, col)
      [] OTHER -> st

RECURSIVE GenLoop(_, _, _, _, _)
GenLoop(type, st, i, choice, col) ==
    IF i >= NumParticles THEN st
    ELSE GenLoop(type, GenParticle(type, st, i, choice[i], col), i + 1, choice, col)

\* generateShape without the allowedShapes fallback.
AppliedShape_noFallback(type) == type

\* The shape generateShape applies for a requested id.
AppliedShape(type) == IF type \in allowedShapes THEN type ELSE "heart"

\* The result of generateShape(type) on the buffers pos and cols.
GenerateShape(type, pos, cols, choice, col) ==
    GenLoop(AppliedShape(type),
            [positions |-> pos, colors |-> cols, idx |-> 0, cIdx |-> 0,
             posWrites |-> [k \in 0 .. (BufLen - 1) |-> 0],
             colWrites |-> [k \in 0 .. (BufLen - 1) |-> 0]],
            0, choice, col)

TraceOf(st) == [idx |-> st.idx, cIdx |-> st.cIdx,
                posWrites |-> st.posWrites, colWrites |-> st.colWrites]

\* The draws of a call: one outcome for the particles of even id and one for
\* those of odd id.
ChoiceFns(type) ==
    {[i \in Ids |-> IF i % 2 = 0 THEN c0 ELSE c1] :
        c0 \in Choices(AppliedShape(type)), c1 \in Choices(AppliedShape(type))}

(***************************************************************************)
(* Pose signals (HandTracker.getState) and the hand-off slot of main.js.   *)
(* position and scale are in 1/Milli; rotation is the class of the         *)
(* quaternion ("unit" or "nan").  present = FALSE is the null pose.        *)
(***************************************************************************)
NoHand == [present |-> FALSE, isClosed |-> FALSE, position |-> <<500, 500>>,
           rotation |-> "unit", scale |-> 200]

Pose(closed, pos, rot, sc) ==
    [present |-> TRUE, isClosed |-> closed, position |-> pos,
     rotation |-> rot, scale |-> sc]

\* A centred hand at the far end of the depth range.
OpenPose == Pose(FALSE, <<500, 500>>, "unit", 100)
ClosedPose == Pose(TRUE, <<500, 500>>, "unit", 100)

(***************************************************************************)
(* HandTracker (database.js).  A landmark frame is a function from the     *)
(* landmarks the tracker reads (0 wrist; 5, 9, 13, 17 knuckles; 8, 12, 16, *)
(* 20 finger tips) to <<x, y, z>> in 1/Milli.  NaN stands for a NaN        *)
(* coordinate.  The frames of the model have whole wrist distances, so     *)
(* that Math.sqrt is exact on them.                                        *)
(***************************************************************************)
NaN == -1000000000

AnyNaN(v) == \E k \in DOMAIN v : v[k] = NaN

\* Math.sqrt, rounded down, by bisection.
RECURSIVE SqrtBetween(_, _, _)
SqrtBetween(n, lo, hi) ==
    IF hi - lo <= 1 THEN lo
    ELSE LET mid == (lo + hi) \div 2
         IN  IF mid * mid <= n THEN SqrtBetween(n, mid, hi)
                               ELSE SqrtBetween(n, lo, mid)
Sqrt(n) == SqrtBetween(n, 0, 40 * Milli)

Sq(x) == x * x

\* sqrt(dx^2 + dy^2 + dz^2) and sqrt(dx^2 + dy^2).
Dist3(a, b) ==
    IF AnyNaN(a) \/ AnyNaN(b) THEN NaN
    ELSE Sqrt(Sq(a[1] - b[1]) + Sq(a[2] - b[2]) + Sq(a[3] - b[3]))
Dist2(a, b) ==
    IF NaN \in {a[1], a[2], b[1], b[2]} THEN NaN
    ELSE Sqrt(Sq(a[1] - b[1]) + Sq(a[2] - b[2]))

LandmarkIds == {0, 5, 8, 9, 12, 13, 16, 17, 20}
TipIds == <<8, 12, 16, 20>>
McpIds == <<5, 9, 13, 17>>

\* Four times the average distance from the wrist to the landmarks ids.
SumDist(landmarks, ids) ==
    LET d == [k \in 1 .. 4 |-> Dist3(landmarks[ids[k]], landmarks[0])]
    IN  IF AnyNaN(d) THEN NaN ELSE d[1] + d[2] + d[3] + d[4]

\* The gesture test against a fixed distance (0.13) instead of the knuckles.
IsClosedHand_absolute(landmarks) ==
    LET tip == SumDist(landmarks, TipIds)
    IN  IF tip = NaN THEN FALSE ELSE tip < 4 * 130

\* The gesture test with <= in place of <.
IsClosedHand_atMost(landmarks) ==
    LET tip == SumDist(landmarks, TipIds)
        mcp == SumDist(landmarks, McpIds)
    IN  IF tip = NaN \/ mcp = NaN THEN FALSE ELSE 10 * tip <= 13 * mcp

\* isClosed = avgTipDist < avgMcpDist * 1.3 (a comparison with NaN is false).
IsClosedHand(landmarks) ==
    LET tip == SumDist(landmarks, TipIds)
        mcp == SumDist(landmarks, McpIds)
    IN  IF tip = NaN \/ mcp = NaN THEN FALSE ELSE 10 * tip < 13 * mcp

\* THREE.Vector3: subVectors, crossVectors, and the sign flips of x and y.
Sub(a, b) == <<a[1] - b[1], a[2] - b[2], a[3] - b[3]>>
Cross(a, b) == <<a[2] * b[3] - a[3] * b[2],
                 a[3] * b[1] - a[1] * b[3],
                 a[1] * b[2] - a[2] * b[1]>>
Dot(a, b) == a[1] * b[1] + a[2] * b[2] + a[3] * b[3]
FlipXY(v) == <<-v[1], -v[2], v[3]>>
ZeroAxis == <<0, 0, 0>>

RECURSIVE Gcd(_, _)
Gcd(a, b) == IF b = 0 THEN a ELSE Gcd(b, a % b)

\* THREE.Vector3.normalize divides by (length() || 1): the zero vector stays
\* the zero vector, and no component becomes NaN.  A unit vector is kept as
\* its direction, the shortest whole vector along it.
Normalize(v) ==
    IF v = ZeroAxis THEN v
    ELSE LET g == Gcd(Gcd(Abs(v[1]), Abs(v[2])), Abs(v[3]))
         IN  <<TDiv(v[1], g), TDiv(v[2], g), TDiv(v[3], g)>>

\* Quaternion.setFromRotationMatrix(makeBasis(x, y, z)): a unit quaternion
\* when the basis is orthonormal.  A basis with a zero axis gives a finite
\* quaternion of norm 1/2 (all axes zero: (0, 0, 0.5, 0)) or 1/sqrt(2).
QuatOfBasis(x, y, z) ==
    [class |-> IF ZeroAxis \notin {x, y, z} /\ Dot(y, z) = 0 THEN "unit" ELSE "nonunit",
     basis |-> <<x, y, z>>]

\* new THREE.Quaternion()
IdentityQuat == QuatOfBasis(<<1, 0, 0>>, <<0, 1, 0>>, <<0, 0, 1>>)

\* The rotation part of updateHandState: the three isNaN tests return before
\* this.rotation is written; otherwise it is set from the basis.
RotationOf(rotation, landmarks) ==
    LET vWrist == landmarks[0]
        vMiddle == landmarks[9]
        vIndex == landmarks[5]
        vPinky == landmarks[17]
    IN  IF AnyNaN(vWrist) \/ AnyNaN(vIndex) \/ AnyNaN(vPinky)
        THEN rotation
        ELSE IF AnyNaN(vMiddle)
        THEN rotation
        ELSE LET zAxis == Normalize(Cross(FlipXY(Sub(vIndex, vWrist)),
                                          FlipXY(Sub(vPinky, vWrist))))
                 yAxisFinal == Normalize(FlipXY(Sub(vMiddle, vWrist)))
                 xAxis == Normalize(Cross(yAxisFinal, zAxis))
             IN  QuatOfBasis(xAxis, yAxisFinal, zAxis)

\* 1 - landmarks[9].x
MirrorX(x) == IF x = NaN THEN NaN ELSE Milli - x

updateHandState(tr, landmarks) ==
    [tr EXCEPT !.isClosed = IsClosedHand(landmarks),
               !.handPosition = <<MirrorX(landmarks[9][1]), landmarks[9][2]>>,
               !.handScale = Dist2(landmarks[9], landmarks[0]),
               !.rotation = RotationOf(tr.rotation, landmarks)]

\* getState: scale is handScale || 0.2, so 0, NaN and undefined give 0.2.
getState(tr) ==
    Pose(tr.isClosed, tr.handPosition, tr.rotation.class,
         IF tr.handScale \in {0, NaN} THEN 200 ELSE tr.handScale)

\* handleResults that keeps silent when no hand is in view.
handleResults_silentWithoutHand(results) ==
    /\ IF Len(results) > 0
       THEN LET tr == updateHandState([tracker EXCEPT !.results = results], results[1])
            IN  /\ tracker' = tr
                /\ handData' = getState(tr)
                /\ lastOp' = Op("handleResults", "called once")
       ELSE /\ tracker' = [tracker EXCEPT !.results = results]
            /\ lastOp' = Op("handleResults", "not called")
            /\ UNCHANGED handData
    /\ UNCHANGED <<engineVars, shapeVars, staticVars, photoVars, focusVars, upload>>

\* handleResults(results): results is results.multiHandLandmarks, a sequence
\* of landmark frames, one per detected hand.  The registered callback is
\* the one of main.js (handData = data).
handleResults(results) ==
    /\ IF Len(results) > 0
       THEN LET tr == updateHandState([tracker EXCEPT !.results = results], results[1])
            IN  /\ tracker' = tr
                /\ handData' = getState(tr)
       ELSE /\ tracker' = [tracker EXCEPT !.results = results]
            /\ handData' = NoHand
    /\ lastOp' = Op("handleResults", "called once")
    /\ UNCHANGED <<engineVars, shapeVars, staticVars, photoVars, focusVars, upload>>

(***************************************************************************)
(* Focus / popup animator.                                                 *)
(***************************************************************************)
\* 1000 * sin((t / 0.3) * (PI / 2)) for t = 0 .. 17 frames.
SinTable == <<0, 87, 174, 259, 342, 423, 500, 574, 643, 707, 766, 819, 866,
              906, 940, 966, 985, 996>>

\* The factor without its hold phase: the fall begins where the ease ends.
PopupFactorAt_noHold(t) ==
    IF t < EaseIn THEN SinTable[t + 1]
    ELSE Milli - TDiv((t - EaseIn) * Milli, totalDuration - EaseIn)

\* The factor updatePopup computes for a timer t below totalDuration.
PopupFactorAt(t) ==
    IF t < EaseIn THEN SinTable[t + 1]
    ELSE IF t < HoldEnd THEN Milli
    ELSE Milli - TDiv((t - HoldEnd) * Milli, EaseIn)

\* The position the CPU computes for particle id: the inputs of its Bezier
\* evaluation (the value is kept symbolic).
getParticlePos(id) ==
    [tPos |-> <<aTargetPos[3 * id + 1], aTargetPos[3 * id + 2], aTargetPos[3 * id + 3]>>,
     rand |-> aRandom[id], time |-> uTime, rot |-> smoothedHandRot,
     scale |-> smoothedHandScale, hand |-> smoothedHandPos,
     progress |-> BlendScale - uState]

\* The position the vertex shader computes for particle id (POSITIONS): the
\* same evaluation, with shapePos scaled by uScale * 1.5.
vertexPosition(id) ==
    [tPos |-> <<aTargetPos[3 * id + 1], aTargetPos[3 * id + 2], aTargetPos[3 * id + 3]>>,
     rand |-> aRandom[id], time |-> uTime, rot |-> smoothedHandRot,
     scale |-> TDiv(smoothedHandScale * 3, 2), hand |-> smoothedHandPos,
     progress |-> BlendScale - uState]

\* Two evaluations give one point: the Bezier parameter and the cloud point
\* agree, and so does the assembled point (which also sets the control point)
\* unless its weight (1 - progress)^2 and the control point's weight
\* 2 * (1 - progress) * progress are both zero.
SamePosition(a, b) ==
    /\ a.progress = b.progress
    /\ <<a.hand, a.rand, a.time>> = <<b.hand, b.rand, b.time>>
    /\ \/ a.progress = BlendScale
       \/ <<a.tPos, a.rot, a.scale, a.rand, a.time>> = <<b.tPos, b.rot, b.scale, b.rand, b.time>>

ZeroVector == [zero |-> TRUE]

\* lerpVectors(startPos, targetPos, factor), targetPos = (0, 0, 42).
LerpToTarget(startPos, factor) == [from |-> startPos, f |-> factor]

\* updatePopup whose terminal branch leaves the popup mesh visible.
updatePopup_staysVisible(dt) ==
    IF ~popupState.active
    THEN UNCHANGED focusVars
    ELSE LET t == popupState.timer + dt IN
         IF t < totalDuration
         THEN LET factor == PopupFactorAt(t) IN
              /\ popupState' = [popupState EXCEPT !.timer = t]
              /\ popupFactor' = factor
              /\ popupMesh' = [popupMesh EXCEPT
                      !.position = LerpToTarget(popupState.startPos, factor),
                      !.scale = 200 + TDiv(800 * factor, Milli)]
              /\ UNCHANGED uClickedID
         ELSE /\ popupState' = [popupState EXCEPT !.timer = t, !.active = FALSE]
              /\ uClickedID' = -1
              /\ popupFactor' = 0
              /\ UNCHANGED popupMesh

\* updatePopup whose terminal branch leaves the particle hidden.
updatePopup_keepsHidden(dt) ==
    IF ~popupState.active
    THEN UNCHANGED focusVars
    ELSE LET t == popupState.timer + dt IN
         IF t < totalDuration
         THEN LET factor == PopupFactorAt(t) IN
              /\ popupState' = [popupState EXCEPT !.timer = t]
              /\ popupFactor' = factor
              /\ popupMesh' = [popupMesh EXCEPT
                      !.position = LerpToTarget(popupState.startPos, factor),
                      !.scale = 200 + TDiv(800 * factor, Milli)]
              /\ UNCHANGED uClickedID
         ELSE /\ popupState' = [popupState EXCEPT !.timer = t, !.active = FALSE]
              /\ popupMesh' = [popupMesh EXCEPT !.visible = FALSE]
              /\ popupFactor' = 0
              /\ UNCHANGED uClickedID

updatePopup(dt) ==
    IF ~popupState.active
    THEN UNCHANGED focusVars
    ELSE LET t == popupState.timer + dt IN
         IF t < totalDuration
         THEN LET factor == PopupFactorAt(t) IN
              /\ popupState' = [popupState EXCEPT !.timer = t]
              /\ popupFactor' = factor
              /\ popupMesh' = [popupMesh EXCEPT
                      !.position = LerpToTarget(popupState.startPos, factor),
                      !.scale = 200 + TDiv(800 * factor, Milli)]
              /\ UNCHANGED uClickedID
         ELSE /\ popupState' = [popupState EXCEPT !.timer = t, !.active = FALSE]
              /\ popupMesh' = [popupMesh EXCEPT !.visible = FALSE]
              /\ uClickedID' = -1
              /\ popupFactor' = 0

\* The bounded random search of onClick.  A run of the loop is a number of
\* draws that hit an unflagged particle (misses), followed, when fewer than
\* MaxTries draws missed, by a draw that hits a flagged one.  The result is
\* that particle, or -1 after MaxTries misses.
\* The test of the search that takes every particle for a photo.
IsPhoto_always(r) == TRUE

IsPhoto(r) == 2 * aIsPhoto[r] > 1
MissesPossible(k) == k = 0 \/ \E r \in Ids : ~IsPhoto(r)
\* The search without its isPhotos[r] > 0.5 test: the first draw is taken.
FindPhotoParticle_anyParticle == Ids

FindPhotoParticle ==
    {r \in Ids : IsPhoto(r) /\ \E misses \in 0 .. (MaxTries - 1) : MissesPossible(misses)}
    \cup (IF MissesPossible(MaxTries) THEN {-1} ELSE {})

\* The UV offset of an atlas slot, in cells.
SlotOffset(slot) == <<slot % atlasCols, atlasRows - 1 - (slot \div atlasCols)>>

\* The outcomes of Math.floor(Math.random() * n) the model draws.
SlotDraws(n) == {0, n - 1}

\* The particle the vertex shader drops from the draw set (HIDE IF CLICKED):
\* abs(aID - uClickedID) < 0.1.
Hidden == {i \in Ids : 10 * Abs(aID[i] - uClickedID) < 1}

\* Activate that lets a running popup keep its timer.
Activate_noRestart(randomID, randomPhotoSlot) ==
    LET startPos == getParticlePos(randomID) IN
    /\ uClickedID' = randomID
    /\ popupState' = [active |-> TRUE,
                      timer |-> IF popupState.active THEN popupState.timer ELSE 0,
                      startPos |-> startPos, id |-> randomID]
    /\ popupMesh' = [visible |-> TRUE,
                     imgOffset |-> SlotOffset(randomPhotoSlot),
                     position |-> LerpToTarget(startPos, 0),
                     scale |-> 100]
    /\ UNCHANGED popupFactor

\* Activate without the write of uClickedID.
Activate_staleHidden(randomID, randomPhotoSlot) ==
    LET startPos == getParticlePos(randomID) IN
    /\ popupState' = [active |-> TRUE, timer |-> 0,
                      startPos |-> startPos, id |-> randomID]
    /\ popupMesh' = [visible |-> TRUE,
                     imgOffset |-> SlotOffset(randomPhotoSlot),
                     position |-> LerpToTarget(startPos, 0),
                     scale |-> 100]
    /\ UNCHANGED <<uClickedID, popupFactor>>

\* onClick once a flagged particle randomID was found: hide it and start the
\* popup on atlas slot randomPhotoSlot.
Activate(randomID, randomPhotoSlot) ==
    LET startPos == getParticlePos(randomID) IN
    /\ uClickedID' = randomID
    /\ popupState' = [active |-> TRUE, timer |-> 0,
                      startPos |-> startPos, id |-> randomID]
    /\ popupMesh' = [visible |-> TRUE,
                     imgOffset |-> SlotOffset(randomPhotoSlot),
                     position |-> LerpToTarget(startPos, 0),
                     scale |-> 100]
    /\ UNCHANGED popupFactor

\* ClickSearch that clears the photo flag of the particle it shows.
ClickSearch_consumesFlag ==
    \E randomPhotoSlot \in SlotDraws(photoCount), randomID \in FindPhotoParticle :
        IF randomID # -1
        THEN /\ Activate(randomID, randomPhotoSlot)
             /\ lastOp' = Op("onClick", "activated")
             /\ aIsPhoto' = [aIsPhoto EXCEPT ![randomID] = 0]
             /\ UNCHANGED <<engineVars, handData, shapeVars, aRandom, aID, aSize,
                            photoVars, tracker, upload>>
        ELSE /\ lastOp' = Op("onClick", "notFound")
             /\ UNCHANGED <<engineVars, handData, shapeVars, staticVars,
                            photoVars, focusVars, tracker, upload>>

\* ClickSearch that sets the popup's image offset before the search.
ClickSearch_offsetBeforeSearch ==
    \E randomPhotoSlot \in SlotDraws(photoCount), randomID \in FindPhotoParticle :
        IF randomID # -1
        THEN /\ Activate(randomID, randomPhotoSlot)
             /\ lastOp' = Op("onClick", "activated")
             /\ UNCHANGED <<engineVars, handData, shapeVars, staticVars, photoVars, tracker, upload>>
        ELSE /\ lastOp' = Op("onClick", "notFound")
             /\ popupMesh' = [popupMesh EXCEPT !.imgOffset = SlotOffset(randomPhotoSlot)]
             /\ UNCHANGED <<engineVars, handData, shapeVars, staticVars,
                            photoVars, popupState, uClickedID, popupFactor, tracker, upload>>

\* onClick with the hand open: draw the photo slot, search a flagged particle.
ClickSearch ==
    \E randomPhotoSlot \in SlotDraws(photoCount), randomID \in FindPhotoParticle :
        IF randomID # -1
        THEN /\ Activate(randomID, randomPhotoSlot)
             /\ lastOp' = Op("onClick", "activated")
             /\ UNCHANGED <<engineVars, handData, shapeVars, staticVars, photoVars, tracker, upload>>
        ELSE /\ lastOp' = Op("onClick", "notFound")
             /\ UNCHANGED <<engineVars, handData, shapeVars, staticVars,
                            photoVars, focusVars, tracker, upload>>

\* onClick without its isClosed test.
onClick_noGuard == ClickSearch

onClick ==
    IF isClosed
    THEN /\ lastOp' = Op("onClick", "rejected")
         /\ UNCHANGED <<engineVars, handData, shapeVars, staticVars, photoVars,
                        focusVars, tracker, upload>>
    ELSE ClickSearch

(***************************************************************************)
(* The engine tick: ParticleSystem.update(dt, handData).                   *)
(***************************************************************************)
\* One factor for both gestures.
posLerpFactor_constant(closed) == 15

\* posLerpFactor, in hundredths: 0.03 while closed, 0.15 while open.
posLerpFactor(closed) == IF closed THEN 3 ELSE 15

\* s + (h - s) * f, with f in hundredths; NaN when s or h is.
Lerp(s, h, f) == IF s = NaN \/ h = NaN THEN NaN ELSE s + TDiv((h - s) * f, 100)

\* The raw hand position in scene coordinates.
HandPos(hd) ==
    <<IF hd.position[1] = NaN THEN NaN ELSE (hd.position[1] - 500) * 40,
      IF hd.position[2] = NaN THEN NaN ELSE -((hd.position[2] - 500) * 30)>>

\* The raw rotation after its pitch is replaced by the tilt computed from the
\* smoothed height y: setFromEuler of finite angles is a unit quaternion,
\* whatever the norm of q; a NaN in q or in y makes every component NaN.
TiltedRotation(q, y) == IF q = "nan" \/ y = NaN THEN "nan" ELSE "unit"
\* The slerp toward it: a quaternion with a NaN component stays one.
Slerp(a, b) == IF a = "nan" \/ b = "nan" THEN "nan" ELSE "unit"

\* The remap without its clamp.
FinalScale_unclamped(sc) == Milli + TDiv((sc - 100) * 5 * 3, 2)

\* The raw scale remapped from [0.1, 0.3] to [1.0, 2.5], clamped.
FinalScale(sc) ==
    LET s == Max(0, Min(Milli, (sc - 100) * 5))
    IN  Milli + TDiv(s * 3, 2)

\* BlendStep with lerpSpeed = 0.05 instead of 0.5.
BlendStep_slow(u, closed, dt) ==
    LET targetState == IF closed THEN BlendScale ELSE 0
    IN  u + TDiv((targetState - u) * dt, 10 * LerpSpeedDen * Second)

\* uState += (targetState - uState) * lerpSpeed * dt
BlendStep(u, closed, dt) ==
    LET targetState == IF closed THEN BlendScale ELSE 0
    IN  u + TDiv((targetState - u) * dt, LerpSpeedDen * Second)

\* update that lets the gesture and the blend fall back while no hand is seen.
update_decaysWithoutHand(dt, hd) ==
    /\ uTime' = uTime + dt
    /\ IF hd.present
       THEN LET f == posLerpFactor(hd.isClosed)
                raw == HandPos(hd)
            IN  /\ isClosed' = hd.isClosed
                /\ smoothedHandPos' = <<Lerp(smoothedHandPos[1], raw[1], f),
                                        Lerp(smoothedHandPos[2], raw[2], f)>>
                /\ smoothedHandRot' =
                       Slerp(smoothedHandRot,
                             TiltedRotation(hd.rotation, smoothedHandPos'[2]))
                /\ slerpFactor' = f
                /\ smoothedHandScale' =
                       IF hd.scale \notin {0, NaN}
                       THEN Lerp(smoothedHandScale, FinalScale(hd.scale), f)
                       ELSE smoothedHandScale
                /\ uState' = BlendStep(uState, hd.isClosed, dt)
       ELSE /\ isClosed' = FALSE
            /\ uState' = BlendStep(uState, FALSE, dt)
            /\ UNCHANGED <<smoothedHandPos, smoothedHandRot, smoothedHandScale,
                           slerpFactor>>
    /\ updatePopup(dt)

\* update that runs the popup only inside its hand branch.
update_popupNeedsHand(dt, hd) ==
    /\ uTime' = uTime + dt
    /\ IF hd.present
       THEN LET f == posLerpFactor(hd.isClosed)
                raw == HandPos(hd)
            IN  /\ isClosed' = hd.isClosed
                /\ smoothedHandPos' = <<Lerp(smoothedHandPos[1], raw[1], f),
                                        Lerp(smoothedHandPos[2], raw[2], f)>>
                /\ smoothedHandRot' =
                       Slerp(smoothedHandRot,
                             TiltedRotation(hd.rotation, smoothedHandPos'[2]))
                /\ slerpFactor' = f
                /\ smoothedHandScale' =
                       IF hd.scale \notin {0, NaN}
                       THEN Lerp(smoothedHandScale, FinalScale(hd.scale), f)
                       ELSE smoothedHandScale
                /\ uState' = BlendStep(uState, hd.isClosed, dt)
       ELSE UNCHANGED <<isClosed, smoothedHandPos, smoothedHandRot,
                        smoothedHandScale, slerpFactor, uState>>
    /\ IF hd.present THEN updatePopup(dt) ELSE UNCHANGED focusVars

\* update(dt, handData): null is the pose with present = FALSE.
update(dt, hd) ==
    /\ uTime' = uTime + dt
    /\ IF hd.present
       THEN LET f == posLerpFactor(hd.isClosed)
                raw == HandPos(hd)
            IN  /\ isClosed' = hd.isClosed
                /\ smoothedHandPos' = <<Lerp(smoothedHandPos[1], raw[1], f),
                                        Lerp(smoothedHandPos[2], raw[2], f)>>
                /\ smoothedHandRot' =
                       Slerp(smoothedHandRot,
                             TiltedRotation(hd.rotation, smoothedHandPos'[2]))
                /\ slerpFactor' = f
                /\ smoothedHandScale' =
                       IF hd.scale \notin {0, NaN}
                       THEN Lerp(smoothedHandScale, FinalScale(hd.scale), f)
                       ELSE smoothedHandScale
                /\ uState' = BlendStep(uState, hd.isClosed, dt)
       ELSE UNCHANGED <<isClosed, smoothedHandPos, smoothedHandRot,
                        smoothedHandScale, slerpFactor, uState>>
    /\ updatePopup(dt)

(***************************************************************************)
(* main.js: the pose callback replaces the slot; animate ticks the engine  *)
(* with whatever the slot holds.                                           *)
(***************************************************************************)
onResults(data) ==
    /\ handData' = data
    /\ lastOp' = Op("onResults", "")
    /\ UNCHANGED <<engineVars, shapeVars, staticVars, photoVars, focusVars, tracker, upload>>

\* animate that takes the pose out of the slot when it consumes it.
animate_clearsSlot(dt) ==
    /\ update(dt, handData)
    /\ lastOp' = Op("update", "")
    /\ handData' = NoHand
    /\ UNCHANGED <<shapeVars, staticVars, photoVars, tracker, upload>>

animate(dt) ==
    /\ update(dt, handData)
    /\ lastOp' = Op("update", "")
    /\ UNCHANGED <<handData, shapeVars, staticVars, photoVars, tracker, upload>>

(***************************************************************************)
(* setShape / generateShape.                                               *)
(***************************************************************************)
\* The theme colour after setShape applied a shape.
ThemeColor(applied, col) ==
    IF applied = "planet" THEN "#800000"
    ELSE IF applied = "tree" THEN "#0f5e2f"
    ELSE col

\* setShape that also draws the photo flags anew (here: clears them).
setShape_reflag(shape, choice) ==
    LET st == GenerateShape(shape, aTargetPos, aColor, choice, color) IN
    /\ currentShape' = AppliedShape(shape)
    /\ aTargetPos' = st.positions
    /\ aColor' = st.colors
    /\ genTrace' = TraceOf(st)
    /\ color' = ThemeColor(AppliedShape(shape), color)
    /\ lastOp' = Op("setShape", shape)
    /\ aIsPhoto' = [i \in Ids |-> 0]
    /\ UNCHANGED <<engineVars, handData, aRandom, aID, aSize, photoVars, focusVars,
                    tracker, upload>>

setShape(shape, choice) ==
    LET st == GenerateShape(shape, aTargetPos, aColor, choice, color) IN
    /\ currentShape' = AppliedShape(shape)
    /\ aTargetPos' = st.positions
    /\ aColor' = st.colors
    /\ genTrace' = TraceOf(st)
    /\ color' = ThemeColor(AppliedShape(shape), color)
    /\ lastOp' = Op("setShape", shape)
    /\ UNCHANGED <<engineVars, handData, staticVars, photoVars, focusVars, tracker, upload>>

(***************************************************************************)
(* Photo atlas counters.                                                   *)
(***************************************************************************)
maxAtlasSlots == atlasCols * atlasRows

\* updateParticlePhotoAssignments: every flagged particle draws a new slot.
AssignPhotos(offsets, count, draw) ==
    [i \in Ids |-> IF IsPhoto(i) THEN SlotOffset(draw[i]) ELSE offsets[i]]

PhotoDraws(count) == {[i \in Ids |-> k] : k \in SlotDraws(Min(count, maxAtlasSlots))}

\* addPhotoToAtlas whose count follows nextPhotoSlot without the Math.min.
addPhotoToAtlas_noMin ==
    LET next == nextPhotoSlot + 1
        count == IF next > photoCount THEN next ELSE photoCount
    IN  /\ nextPhotoSlot' = next
        /\ photoCount' = count
        /\ \E draw \in PhotoDraws(count) :
               aImgOffset' = AssignPhotos(aImgOffset, count, draw)
        /\ lastOp' = Op("addPhotoToAtlas", "")
        /\ UNCHANGED <<engineVars, handData, shapeVars, staticVars, focusVars, tracker>>

\* The slot addPhotoToAtlas draws into and returns.
AtlasSlot == nextPhotoSlot % maxAtlasSlots

addPhotoToAtlas ==
    LET next == nextPhotoSlot + 1
        count == IF next > photoCount THEN Min(next, maxAtlasSlots) ELSE photoCount
    IN  /\ nextPhotoSlot' = next
        /\ photoCount' = count
        /\ \E draw \in PhotoDraws(count) :
               aImgOffset' = AssignPhotos(aImgOffset, count, draw)
        /\ lastOp' = Op("addPhotoToAtlas", "")
        /\ UNCHANGED <<engineVars, handData, shapeVars, staticVars, focusVars, tracker>>

addPhotoToAtlasAtSlot(slot) ==
    LET count == IF slot >= photoCount /\ slot < maxAtlasSlots
                 THEN slot + 1 ELSE photoCount
    IN  /\ photoCount' = count
        /\ nextPhotoSlot' = IF slot >= nextPhotoSlot THEN slot + 1 ELSE nextPhotoSlot
        /\ \E draw \in PhotoDraws(count) :
               aImgOffset' = AssignPhotos(aImgOffset, count, draw)
        /\ lastOp' = Op("addPhotoToAtlasAtSlot", "")
        /\ UNCHANGED <<engineVars, handData, shapeVars, staticVars, focusVars, tracker>>

(***************************************************************************)
(* UI: the database connection with the restore of stored photos, and the  *)
(* batch of image files of handleFiles.  Each file runs                    *)
(*   reading -> (img.onload) -> saving -> (savePhoto resolves) -> done     *)
(* and skips "saving" when the database is not connected.                  *)
(***************************************************************************)
Files == 1 .. NumFiles

\* The rows the database may hold at start-up, by slot (70: a row written
\* by another client, beyond the atlas).
RestoreSlots == {20, 63, 70}

\* The completion test of an onload closure: one more toast when the
\* batch counter has reached the batch size.
Completed(loaded, total) == IF loaded = total THEN 1 ELSE 0

\* initDatabase with a successful init, then loadPhotosFromDatabase up to
\* the loop that sets every img.src.
initDatabase(rows) ==
    /\ ~upload.connected
    /\ upload' = [upload EXCEPT !.connected = TRUE, !.rows = rows,
                                !.restoreTotal = Cardinality(rows)]
    /\ lastOp' = Op("initDatabase", "")
    /\ UNCHANGED <<engineVars, handData, shapeVars, staticVars, photoVars,
                   focusVars, tracker>>

\* img.onload of loadPhotosFromDatabase for the row of one slot.
restoreOnload(slot) ==
    /\ slot \in upload.rows
    /\ addPhotoToAtlasAtSlot(slot)
    /\ upload' = [upload EXCEPT
           !.rows = @ \ {slot},
           !.restoreLoaded = @ + 1,
           !.restoreToasts = @ + Completed(upload.restoreLoaded + 1, upload.restoreTotal)]

\* handleFiles(files) with n image files: the readers are started.
handleFiles(n) ==
    /\ upload.totalFiles = 0
    /\ upload' = [upload EXCEPT !.totalFiles = n,
                                !.pc = [f \in Files |-> IF f <= n THEN "reading" ELSE "idle"]]
    /\ lastOp' = Op("handleFiles", "")
    /\ UNCHANGED <<engineVars, handData, shapeVars, staticVars, photoVars,
                   focusVars, tracker>>

\* img.onload of handleFiles for file f, up to its await (or to its end when
\* the database is not connected).
imgOnload(f) ==
    /\ upload.pc[f] = "reading"
    /\ addPhotoToAtlas
    /\ upload' = [upload EXCEPT
           !.slot[f] = AtlasSlot,
           !.loadedCount = @ + 1,
           !.pc[f] = IF upload.connected THEN "saving" ELSE "done",
           !.toasts = IF upload.connected THEN @
                      ELSE @ + Completed(upload.loadedCount + 1, upload.totalFiles)]

\* savePhoto resolves for file f (ok: the upsert succeeded) and the rest of
\* its onload runs.
saveResolved(f, ok) ==
    /\ upload.pc[f] = "saving"
    /\ upload' = [upload EXCEPT
           !.saved = IF ok THEN {p \in @ : p[1] # upload.slot[f]} \cup {<<upload.slot[f], f>>}
                     ELSE @,
           !.pc[f] = "done",
           !.toasts = @ + Completed(upload.loadedCount, upload.totalFiles)]
    /\ lastOp' = Op("savePhoto", IF ok THEN "saved" ELSE "failed")
    /\ UNCHANGED <<engineVars, handData, shapeVars, staticVars, photoVars,
                   focusVars, tracker>>

(***************************************************************************)
(* The state after construction: initParticles, initPopup and              *)
(* generateShape('heart').                                                 *)
(***************************************************************************)
InitColor == "#ff0066"

Init ==
    /\ uTime = 0
    /\ handData = NoHand
    /\ isClosed = FALSE
    /\ uState = 0
    /\ smoothedHandPos = <<0, 0>>
    /\ smoothedHandRot = "unit"
    /\ smoothedHandScale = Milli
    /\ slerpFactor = 0
    /\ color = InitColor
    /\ aRandom = [i \in Ids |-> 250 + 100 * i]
    /\ aSize = [i \in Ids |-> 800 + 100 * i]
    /\ aID = [i \in Ids |-> i]
    /\ aIsPhoto \in [Ids -> {0, 1}]
    /\ aImgOffset = [i \in Ids |-> SlotOffset(i % InitialPhotos)]
    /\ photoCount = InitialPhotos
    /\ nextPhotoSlot = InitialPhotos
    /\ LET st == GenerateShape("heart",
                               [k \in 1 .. BufLen |-> <<(k - 1) \div 3, "random">>],
                               [k \in 1 .. BufLen |-> <<(k - 1) \div 3, InitColor>>],
                               [i \in Ids |-> "only"], InitColor)
       IN  /\ currentShape = "heart"
           /\ aTargetPos = st.positions
           /\ aColor = st.colors
           /\ genTrace = TraceOf(st)
    /\ popupState = [active |-> FALSE, timer |-> 0, startPos |-> ZeroVector, id |-> -1]
    /\ uClickedID = -1
    /\ popupMesh = [visible |-> FALSE, imgOffset |-> <<0, 0>>,
                    position |-> ZeroVector, scale |-> Milli]
    /\ popupFactor = 0
    \* handScale is undefined until the first frame; it is read only through
    \* `handScale || 0.2`, where undefined and NaN act alike.
    /\ tracker = [results |-> <<>>, isClosed |-> FALSE, handPosition |-> <<500, 500>>,
                  rotation |-> IdentityQuat, handScale |-> NaN]
    /\ upload = [connected |-> FALSE, rows |-> {}, restoreTotal |-> 0,
                 restoreLoaded |-> 0, restoreToasts |-> 0,
                 totalFiles |-> 0, pc |-> [f \in Files |-> "idle"],
                 slot |-> [f \in Files |-> -1], loadedCount |-> 0,
                 toasts |-> 0, saved |-> {}]
    /\ lastOp = Op("init", "")

(***************************************************************************)
(* Spec: the engine under any interleaving of pose callbacks, ticks,       *)
(* activations, shape changes and photo additions.                         *)
(***************************************************************************)
TickDts == {0, 45}
Poses == {OpenPose, ClosedPose}

\* The shape changes of Spec: one shape id, every particle drawing the same
\* branch.  ShapeSpec below explores every id and every draw.
SpecShapes == {"star"}
UniformChoices(shape) == {[i \in Ids |-> c] : c \in Choices(AppliedShape(shape))}

Tick == \E dt \in TickDts : uTime + dt <= MaxClock /\ animate(dt)
Callback == \E data \in Poses : onResults(data)
Click == onClick
ChangeShape == \E shape \in SpecShapes : \E choice \in UniformChoices(shape) :
                   setShape(shape, choice)
AddPhoto ==
    /\ nextPhotoSlot < InitialPhotos + MaxAdded
    /\ addPhotoToAtlas
    /\ UNCHANGED upload

Next == Tick \/ Callback \/ Click \/ ChangeShape \/ AddPhoto

Spec == Init /\ [][Next]_vars

(***************************************************************************)
(* PopupSpec: activations and ticks on a finer time grid, no hand in view. *)
(***************************************************************************)
PopupDts == {1, 6, 18, 30}

PopupTick == \E dt \in PopupDts : uTime + dt <= MaxPopupClock /\ animate(dt)

PopupNext == PopupTick \/ Click

PopupSpec == Init /\ [][PopupNext]_vars

(***************************************************************************)
(* BlendSpec: pose callbacks and ticks, including the long frames a        *)
(* suspended page produces (dt = now - lastTime has no upper limit).       *)
(***************************************************************************)
BlendDts == {0, 30, 60, 180}
BlendPoses == {NoHand, OpenPose, ClosedPose}

BlendTick == \E dt \in BlendDts : uTime + dt <= MaxBlendClock /\ animate(dt)
BlendCallback == \E data \in BlendPoses : onResults(data)

BlendNext == BlendTick \/ BlendCallback

BlendSpec == Init /\ [][BlendNext]_vars

(***************************************************************************)
(* HoldSpec: a closed fist is delivered, then held over ticks of 1/60 s.   *)
(***************************************************************************)
FistArrives == ~handData.present /\ onResults(ClosedPose)
HoldTick == handData.present /\ uTime + 1 <= MaxHoldClock /\ animate(1)

HoldNext == FistArrives \/ HoldTick

HoldSpec == Init /\ [][HoldNext]_vars

(***************************************************************************)
(* ShapeSpec: setShape with every shape id and every outcome of the draws. *)
(***************************************************************************)
ShapeNext == \E shape \in ShapeIds : \E choice \in ChoiceFns(shape) : setShape(shape, choice)

ShapeSpec == Init /\ [][ShapeNext]_vars

(***************************************************************************)
(* Landmark frames.  Landmarks(w, mcp, tip) is the hand with its wrist at  *)
(* w whose knuckles and finger tips (index, middle, ring, pinky) lie at    *)
(* the offsets mcp and tip from the wrist.                                 *)
(***************************************************************************)
Add(a, b) == <<a[1] + b[1], a[2] + b[2], a[3] + b[3]>>

Landmarks(w, mcp, tip) ==
    [i \in LandmarkIds |->
        CASE i = 0 -> w
          [] i = 5 -> Add(w, mcp[1])
          [] i = 9 -> Add(w, mcp[2])
          [] i = 13 -> Add(w, mcp[3])
          [] i = 17 -> Add(w, mcp[4])
          [] i = 8 -> Add(w, tip[1])
          [] i = 12 -> Add(w, tip[2])
          [] i = 16 -> Add(w, tip[3])
          [] i = 20 -> Add(w, tip[4])]

Wrist == <<500, 700, 0>>
AtWrist == <<ZeroAxis, ZeroAxis, ZeroAxis, ZeroAxis>>

\* An upright flat hand, fingers stretched: tips twice as far as knuckles.
OpenFrame ==
    Landmarks(Wrist,
              <<<<-60, -80, 0>>, <<0, -100, 0>>, <<28, -96, 0>>, <<60, -80, 0>>>>,
              <<<<-120, -160, 0>>, <<0, -200, 0>>, <<56, -192, 0>>, <<120, -160, 0>>>>)
\* A fist turned by a quarter turn, nearer to the camera: tips on the knuckles.
FistFrame ==
    Landmarks(Wrist,
              <<<<160, -120, 0>>, <<200, 0, 0>>, <<192, 56, 0>>, <<160, 120, 0>>>>,
              <<<<160, -120, 0>>, <<200, 0, 0>>, <<192, 56, 0>>, <<160, 120, 0>>>>)
\* Tips at exactly 1.3 times the knuckle distance, and just below it.
EdgeFrame ==
    Landmarks(Wrist,
              <<<<-60, -80, 0>>, <<0, -100, 0>>, <<28, -96, 0>>, <<60, -80, 0>>>>,
              <<<<-50, -120, 0>>, <<0, -130, 0>>, <<-78, -104, 0>>, <<50, -120, 0>>>>)
NearFistFrame ==
    Landmarks(Wrist,
              <<<<-60, -80, 0>>, <<0, -100, 0>>, <<28, -96, 0>>, <<60, -80, 0>>>>,
              <<<<-75, -100, 0>>, <<0, -125, 0>>, <<35, -120, 0>>, <<75, -100, 0>>>>)
\* Degenerate geometry: all landmarks on the wrist; wrist, index knuckle and
\* pinky knuckle on one line; the middle knuckle on the wrist.
CoincidentFrame == Landmarks(Wrist, AtWrist, AtWrist)
CollinearFrame ==
    Landmarks(Wrist,
              <<<<0, -100, 0>>, <<0, -100, 0>>, <<0, -100, 0>>, <<0, -80, 0>>>>,
              <<<<0, -200, 0>>, <<0, -200, 0>>, <<0, -200, 0>>, <<0, -160, 0>>>>)
WristOnMiddleFrame ==
    Landmarks(Wrist,
              <<<<-60, -80, 0>>, <<0, 0, 0>>, <<28, -96, 0>>, <<60, -80, 0>>>>,
              <<<<-120, -160, 0>>, <<0, -200, 0>>, <<56, -192, 0>>, <<120, -160, 0>>>>)
\* The open hand with a NaN x coordinate of the middle knuckle.
NaNFrame == [OpenFrame EXCEPT ![9] = <<NaN, @[2], @[3]>>]

DegenerateFrames == {CoincidentFrame, CollinearFrame, WristOnMiddleFrame}

\* Degenerate geometry as the tracker's axes show it.
IsDegenerate(landmarks) ==
    /\ ~AnyNaN(landmarks[0]) /\ ~AnyNaN(landmarks[5])
    /\ ~AnyNaN(landmarks[9]) /\ ~AnyNaN(landmarks[17])
    /\ \/ Cross(Sub(landmarks[5], landmarks[0]), Sub(landmarks[17], landmarks[0])) = ZeroAxis
       \/ landmarks[9] = landmarks[0]

(***************************************************************************)
(* TrackSpec: the tracker delivers detector results (no hand, one hand,    *)
(* two hands; valid, degenerate and NaN frames) and the engine ticks.      *)
(***************************************************************************)
TrackFrames == {OpenFrame, FistFrame, NaNFrame} \cup DegenerateFrames
TrackResults ==
    {<<>>} \cup {<<f>> : f \in TrackFrames}
           \cup {<<OpenFrame, FistFrame>>, <<FistFrame, OpenFrame>>}
TrackDts == {30}

Detect == \E results \in TrackResults : handleResults(results)
TrackTick == \E dt \in TrackDts : uTime + dt <= MaxTrackClock /\ animate(dt)

TrackNext == Detect \/ TrackTick

\* No action of TrackSpec reads the photo flags: one draw of them is kept.
TrackInit == Init /\ \A i \in Ids : aIsPhoto[i] = 1

TrackSpec == TrackInit /\ [][TrackNext]_vars

(***************************************************************************)
(* GestureSpec: one hand in view, in frames of several shapes, each at     *)
(* several sizes (all coordinates multiplied by k), and engine ticks.      *)
(***************************************************************************)
Scales == 1 .. MaxScale

ScaleFrame(landmarks, k) ==
    [i \in LandmarkIds |->
        [c \in 1 .. 3 |-> IF landmarks[i][c] = NaN THEN NaN ELSE k * landmarks[i][c]]]

GestureFrames == {OpenFrame, FistFrame, EdgeFrame, NearFistFrame, CoincidentFrame}

GestureDetect ==
    \E f \in GestureFrames, k \in Scales : handleResults(<<ScaleFrame(f, k)>>)
GestureTick == \E dt \in TrackDts : uTime + dt <= MaxGestureClock /\ animate(dt)

GestureNext == GestureDetect \/ GestureTick

GestureSpec == TrackInit /\ [][GestureNext]_vars

(***************************************************************************)
(* LiveSpec: pose callbacks (a fist off the centre, or no hand), clicks    *)
(* and ticks.  requestAnimationFrame keeps the ticks coming: a tick is     *)
(* possible up to the end of the clock and, beyond it, as long as a popup  *)
(* is running; clicks end with the clock.                                  *)
(***************************************************************************)
FistPose == Pose(TRUE, <<300, 700>>, "unit", 200)
LivePoses == {NoHand, FistPose}
LiveDts == {15, 30}

LiveCallback == \E data \in LivePoses : onResults(data)
LiveTick ==
    \E dt \in LiveDts : (uTime + dt <= MaxLiveClock \/ popupState.active) /\ animate(dt)
LiveClick == uTime < MaxLiveClock /\ onClick

LiveNext == LiveCallback \/ LiveTick \/ LiveClick

LiveSpec == Init /\ [][LiveNext]_vars /\ WF_vars(LiveTick)

(***************************************************************************)
(* UploadSpec: the database connects (or never does) and restores its      *)
(* rows, one batch of files is dropped, and the load and save callbacks    *)
(* run in any order; a click follows.                                      *)
(***************************************************************************)
Connect == \E rows \in SUBSET RestoreSlots : initDatabase(rows)
Restore == \E slot \in RestoreSlots : restoreOnload(slot)
Drop == \E n \in Files : handleFiles(n)
ImgLoad == \E f \in Files : imgOnload(f)
SaveDone == \E f \in Files, ok \in BOOLEAN : saveResolved(f, ok)

\* The restore and the batch have run to their ends.
Settled ==
    /\ upload.rows = {}
    /\ upload.totalFiles > 0
    /\ \A f \in Files : upload.pc[f] \in {"idle", "done"}

\* One activation, once the atlas is settled (no tick ends the popup here).
UploadClick == Settled /\ ~popupState.active /\ onClick

UploadNext == Connect \/ Restore \/ Drop \/ ImgLoad \/ SaveDone \/ UploadClick

UploadSpec == TrackInit /\ [][UploadNext]_vars

(***************************************************************************)
(* Properties.                                                             *)
(***************************************************************************)
AnyFlagged == \E r \in Ids : IsPhoto(r)
AnyUnflagged == \E r \in Ids : ~IsPhoto(r)

\* The tags of the target entries each applied shape writes.
ShapeTags(shape) ==
    CASE shape = "heart" -> {"heart"}
      [] shape = "star" -> {"star"}
      [] shape = "planet" -> {"planet_core", "planet_ring", "planet_arc", "planet_moon"}
      [] shape = "tree" -> {"tree_trunk", "tree_star", "tree_garland", "tree_body"}
      [] shape = "flower" -> {"flower"}
      [] OTHER -> {}

\* C1: over any sequence of ticks with dt >= 0 and any gestures, the blend
\* stays within [0, 1] after every tick, and one tick changes it by at most
\* rate * dt, rate = 0.5 per second.
C1_BlendBoundedAndContinuous ==
    [][/\ uState' >= 0
       /\ uState' <= BlendScale
       /\ Abs(uState' - uState) * LerpSpeedDen * Second
              <= BlendScale * (uTime' - uTime)]_vars

\* C2 (as claimed): from blend 0, a Closed pose held over ticks of 1/60 s for
\* at least 5 s (300 ticks) leaves the blend above 0.99.
C2_HoldAbove99 ==
    (lastOp.op = "update" /\ uTime >= 5 * Second) => 100 * uState > 99 * BlendScale

\* C2 (amended): from blend 0, a Closed pose held over ticks of 1/60 s for at
\* least 5 s (300 ticks) leaves the blend above 0.91; it is above 0.99 once
\* 10 s (600 ticks) have been applied.
C2_HoldConvergence ==
    /\ (lastOp.op = "update" /\ uTime >= 5 * Second) => 100 * uState > 91 * BlendScale
    /\ (lastOp.op = "update" /\ uTime >= 10 * Second) => 100 * uState > 99 * BlendScale

C2_Witness ==
    /\ lastOp.op = "update"
    /\ uTime = 5 * Second
    /\ isClosed
    /\ handData = ClosedPose

\* C3: an activate event received while isClosed is true changes nothing:
\* popupState, uClickedID, the popup mesh (visibility, image offset) and every
\* other part of the state are as before, whether or not a popup is active.
C3_ClosedClickRejected ==
    [][(lastOp'.op = "onClick" /\ isClosed) =>
           UNCHANGED <<focusVars, engineVars, handData, shapeVars, staticVars,
                       photoVars>>]_vars

C3_Witness ==
    /\ lastOp = Op("onClick", "rejected")
    /\ isClosed
    /\ popupState.active
    /\ popupState.timer > 0

\* The state right after a successful activation: exactly one particle, a
\* flagged one, is hidden, and the animator runs on it from timer 0.
JustActivated ==
    /\ popupState.active
    /\ popupState.timer = 0
    /\ popupMesh.visible
    /\ uClickedID \in Ids
    /\ IsPhoto(uClickedID)
    /\ popupState.id = uClickedID
    /\ Hidden = {uClickedID}

\* C4 (as claimed): an activate event received while the gesture is Open and
\* at least one particle is flagged hides exactly one particle and activates
\* the animator with timer 0.
C4_OpenClickActivates ==
    [][(lastOp'.op = "onClick" /\ ~isClosed /\ AnyFlagged) => JustActivated']_vars

\* C4 (amended): an activate event received while the gesture is Open and at
\* least one particle is flagged either hides exactly one particle, a flagged
\* one, and activates the animator on it with timer 0, or, when all of the 100
\* draws of the search hit unflagged particles (possible only while some
\* particle is unflagged), changes nothing.
C4_OpenClickActivatesOrMisses ==
    [][(lastOp'.op = "onClick" /\ ~isClosed /\ AnyFlagged) =>
           \/ JustActivated'
           \/ AnyUnflagged /\ UNCHANGED <<focusVars, engineVars, photoVars>>]_vars

C4_Witness ==
    /\ lastOp = Op("onClick", "activated")
    /\ ~isClosed
    /\ JustActivated
    /\ AnyUnflagged

\* C5: after an activation the popup follows its timeline in the accumulated
\* tick time t: from t = 0.3 s on (and before the fade at 1.2 s) the factor is
\* 1.0 within 0.02, and once t has reached 1.5 s the animator is inactive,
\* the popup is hidden and no particle is excluded (uClickedID = -1).
C5_PopupTimeline ==
    /\ (popupState.active /\ popupState.timer >= EaseIn /\ popupState.timer < HoldEnd)
           => Abs(popupFactor - Milli) <= 20
    /\ popupState.timer >= totalDuration
           => (~popupState.active /\ ~popupMesh.visible /\ uClickedID = -1)

C5_Witness ==
    /\ lastOp.op = "update"
    /\ popupState.id \in Ids
    /\ popupState.timer = totalDuration
    /\ ~popupState.active
    /\ uClickedID = -1

\* C6: in every reachable state, while popupState.active the particle of
\* popupState.id is the one excluded from the main render pass (uClickedID =
\* popupState.id, a valid id), and at most one particle is excluded.
C6_ActiveParticleHidden ==
    /\ popupState.active =>
           (popupState.id \in Ids /\ uClickedID = popupState.id
            /\ Hidden = {popupState.id})
    /\ Cardinality(Hidden) <= 1

C6_Witness ==
    /\ popupState.active
    /\ popupState.timer > 0
    /\ currentShape = "star"
    /\ photoCount > InitialPhotos
    /\ isClosed

\* C7: setShape, for any shape id, keeps the particle count and every
\* particle's randomSeed, isPhoto flag, id, image-cell offset and size; of
\* the per-particle data only target positions and colours are rewritten.
C7_ShapeChangePreservesParticles ==
    [][lastOp'.op = "setShape" =>
           /\ UNCHANGED <<aRandom, aIsPhoto, aID, aImgOffset, aSize>>
           /\ Len(aTargetPos') = Len(aTargetPos)
           /\ Len(aColor') = Len(aColor)
           /\ DOMAIN aIsPhoto' = Ids]_vars

C7_Witness ==
    /\ lastOp = Op("setShape", "tree")
    /\ currentShape = "tree"
    /\ AnyFlagged
    /\ \E k \in 1 .. BufLen : aTargetPos[k][2] = "tree_garland"

\* C8: every generateShape writes exactly one target position and one colour
\* per particle: both write indices end at 3N, each of the 3N entries of each
\* buffer is written once, by the iteration of its own particle, the buffers
\* keep length 3N and no target entry is left from another shape.
C8_ExactlyNEntries ==
    /\ genTrace.idx = BufLen
    /\ genTrace.cIdx = BufLen
    /\ Len(aTargetPos) = BufLen
    /\ Len(aColor) = BufLen
    /\ \A k \in 0 .. (BufLen - 1) :
           /\ genTrace.posWrites[k] = 1
           /\ genTrace.colWrites[k] = 1
           /\ aTargetPos[k + 1][1] = k \div 3
           /\ aColor[k + 1][1] = k \div 3
           /\ aTargetPos[k + 1][2] \in ShapeTags(currentShape)

C8_Witness ==
    /\ lastOp = Op("setShape", "tree")
    /\ aTargetPos[1][2] = "tree_garland"
    /\ aTargetPos[BufLen][2] = "tree_body"

\* C9: setShape with an id that is no known shape falls back to 'heart':
\* currentShape is 'heart' and all N targets and colours are regenerated for
\* the heart.
C9_UnknownShapeFallsBack ==
    (lastOp.op = "setShape" /\ lastOp.arg \notin allowedShapes) =>
        /\ currentShape = "heart"
        /\ genTrace.idx = BufLen
        /\ genTrace.cIdx = BufLen
        /\ \A k \in 1 .. BufLen :
               /\ aTargetPos[k] = <<(k - 1) \div 3, "heart">>
               /\ aColor[k] = <<(k - 1) \div 3, color>>

C9_Witness ==
    /\ lastOp = Op("setShape", "unknown")
    /\ currentShape = "heart"
    /\ color = "#0f5e2f"

\* C10: each advertised shape (heart, flower, star, planet, buddha,
\* fireworks) is selectable: after setShape(id) currentShape is id and the
\* targets are those of that shape's own generation branch.
C10_AdvertisedShapesSelectable ==
    (lastOp.op = "setShape" /\ lastOp.arg \in AdvertisedShapes) =>
        /\ currentShape = lastOp.arg
        /\ \A k \in 1 .. BufLen : aTargetPos[k][2] \in ShapeTags(lastOp.arg)

Stabilized == <<smoothedHandPos, smoothedHandRot, smoothedHandScale, uState, isClosed>>

\* A pose with a NaN component.
Malformed(hd) ==
    hd.present /\ (AnyNaN(hd.position) \/ hd.rotation = "nan" \/ hd.scale = NaN)

NoSmoothedNaN ==
    ~AnyNaN(smoothedHandPos) /\ smoothedHandRot # "nan" /\ smoothedHandScale # NaN

\* C11: a tick whose pose has a NaN component leaves the smoothed position,
\* orientation and scale, the blend and the gesture flag as they were, and no
\* smoothed value ever is NaN.
C11_MalformedPoseDropped ==
    [][/\ (lastOp'.op = "update" /\ Malformed(handData)) => UNCHANGED Stabilized
       /\ NoSmoothedNaN']_vars

\* C14: whatever landmark frames arrive, degenerate ones included, the pose
\* the tracker hands to the engine carries a unit quaternion, and the smoothed
\* orientation is a finite unit quaternion.
C14_OrientationAlwaysUnit ==
    /\ smoothedHandRot = "unit"
    /\ handData.present => handData.rotation = "unit"

\* C15: on a frame with degenerate geometry updateHandState keeps the rotation
\* of the last valid frame, and still takes gesture, position and scale from
\* the frame.
C15_DegenerateFrameKeepsRotation ==
    [][(/\ lastOp'.op = "handleResults"
        /\ Len(tracker'.results) > 0
        /\ IsDegenerate(tracker'.results[1])) =>
           LET f == tracker'.results[1] IN
           /\ tracker'.rotation = tracker.rotation
           /\ tracker'.isClosed = IsClosedHand(f)
           /\ tracker'.handPosition = <<Milli - f[9][1], f[9][2]>>
           /\ tracker'.handScale = Dist2(f[9], f[0])]_vars

\* C16: handleResults calls the pose callback once per detector result: with
\* null when the result holds no hand, else with a pose taken from the first
\* hand alone (gesture, mirrored position of its middle knuckle, and scale).
C16_CallbackOncePerResult ==
    [][lastOp'.op = "handleResults" =>
           /\ lastOp'.arg = "called once"
           /\ IF Len(tracker'.results) = 0
              THEN handData' = NoHand
              ELSE LET f == tracker'.results[1]
                       d == Dist2(f[9], f[0])
                   IN  /\ handData'.present
                       /\ handData'.isClosed = IsClosedHand(f)
                       /\ handData'.position = <<MirrorX(f[9][1]), f[9][2]>>
                       /\ handData'.scale = IF d \in {0, NaN} THEN 200 ELSE d
                       /\ handData'.rotation = tracker'.rotation.class]_vars

\* Two hands in the result: the pose is the one of the first, the fist.
C16_Witness ==
    /\ lastOp.op = "handleResults"
    /\ tracker.results = <<FistFrame, OpenFrame>>
    /\ handData.present /\ handData.isClosed
    /\ handData.position = <<300, 700>>

\* C17: the hand-off is one slot.  A callback replaces its content with the
\* pose it delivers (null for no hand), nothing else writes it, and a tick
\* works on the content of the slot: the latest delivery.  A tick is possible
\* whether or not a callback came since the last one.
C17_LatestPoseWins ==
    /\ [][/\ lastOp'.op = "handleResults" =>
                 handData' = IF Len(tracker'.results) = 0 THEN NoHand
                             ELSE getState(tracker')
          /\ lastOp'.op # "handleResults" => handData' = handData
          /\ lastOp'.op = "update" =>
                 IF handData.present
                 THEN /\ isClosed' = handData.isClosed
                      /\ uState' = BlendStep(uState, handData.isClosed, uTime' - uTime)
                 ELSE UNCHANGED Stabilized]_vars
    /\ [](uTime + 30 <= MaxTrackClock => ENABLED TrackTick)

\* A second tick in a row on the fist that replaced the open hand.
C17_Witness ==
    /\ lastOp.op = "update"
    /\ uTime = 60
    /\ tracker.results = <<FistFrame>>
    /\ isClosed
    /\ uState = BlendStep(BlendStep(0, TRUE, 30), TRUE, 30)

\* C13: the gesture updateHandState found for a landmark frame is the gesture
\* of the same frame with all coordinates multiplied by k, for every k.
C13_GestureScaleInvariant ==
    Len(tracker.results) > 0 =>
        \A k \in Scales : IsClosedHand(ScaleFrame(tracker.results[1], k)) = tracker.isClosed

\* A hand just under the threshold, seen at twice the size: still a fist.
C13_Witness ==
    /\ lastOp.op = "handleResults"
    /\ tracker.results = <<ScaleFrame(NearFistFrame, 2)>>
    /\ tracker.isClosed

\* C12: a tick without a hand leaves the smoothed position, orientation and
\* scale, the blend and the gesture flag as they are, every time; it advances
\* the clock and the timer of a running popup, and writes nothing else
\* outside the popup.
C12_NoHandTickHoldsState ==
    [][(lastOp'.op = "update" /\ ~handData.present) =>
           /\ UNCHANGED Stabilized
           /\ uTime' >= uTime
           /\ UNCHANGED <<handData, shapeVars, staticVars, photoVars, tracker, upload>>
           /\ IF popupState.active
              THEN popupState'.timer = popupState.timer + (uTime' - uTime)
              ELSE UNCHANGED focusVars]_vars

\* A tick without a hand, after a fist moved the smoothed state, with a popup
\* running.
C12_Witness ==
    /\ lastOp.op = "update"
    /\ ~handData.present
    /\ isClosed /\ uState > 0 /\ smoothedHandPos # <<0, 0>>
    /\ popupState.active /\ popupState.timer = 60

\* C19: the timer of a running popup advances by dt on every tick, with or
\* without a pose, and a running popup is eventually over: not active, hidden,
\* and no particle hidden for it.
C19_PopupRunsToEnd ==
    /\ [][(lastOp'.op = "update" /\ popupState.active) =>
              popupState'.timer = popupState.timer + (uTime' - uTime)]_vars
    /\ popupState.active ~>
           (~popupState.active /\ ~popupMesh.visible /\ uClickedID = -1)

\* A popup that ended while no hand was seen.
C19_Witness ==
    /\ lastOp.op = "update"
    /\ ~handData.present
    /\ popupState.id # -1 /\ ~popupState.active
    /\ ~popupMesh.visible /\ uClickedID = -1

\* C18: after a tick of a running popup the factor lies in [0, 1] and is set
\* by the timer t alone: for t < 0.3 s it follows the quarter sine (above the
\* chord t / 0.3, below the arc (pi / 2) * t / 0.3, below 1), for 0.3 s <= t <
\* 1.2 s it is 1, for 1.2 s <= t < 1.5 s it is 1 - (t - 1.2) / 0.3; the popup
\* stands at the interpolation from its start position by that factor.
C18_PopupFactorCurve ==
    (lastOp.op = "update" /\ popupState.active) =>
        LET t == popupState.timer
            f == popupFactor
        IN  /\ f >= 0 /\ f <= Milli
            /\ t < totalDuration
            /\ t < EaseIn =>
                   /\ f * EaseIn >= t * Milli
                   /\ f * EaseIn <= 1571 * t + EaseIn
                   /\ f < Milli
            /\ (t >= EaseIn /\ t < HoldEnd) => f = Milli
            /\ t >= HoldEnd =>
                   /\ (totalDuration - HoldEnd) * (Milli - f) <= (t - HoldEnd) * Milli
                   /\ (totalDuration - HoldEnd) * (Milli - f + 1) > (t - HoldEnd) * Milli
            /\ popupMesh.position = LerpToTarget(popupState.startPos, f)

\* A popup on its way out, 0.1 s into the fall: the factor is 2/3.
C18_Witness ==
    /\ lastOp.op = "update"
    /\ popupState.active
    /\ popupState.timer = HoldEnd + 6
    /\ popupFactor = 667

\* C20: an activate event with the hand open whose search finds no flagged
\* particle changes nothing: no particle becomes hidden, and popupState, the
\* popup's visibility and its image offset stay; with no flagged particle the
\* search always ends so.
C20_MissedSearchIsNoOp ==
    [][(lastOp'.op = "onClick" /\ ~isClosed) =>
           /\ ~AnyFlagged => lastOp'.arg = "notFound"
           /\ lastOp'.arg = "notFound" =>
                  /\ Hidden' = Hidden
                  /\ UNCHANGED <<focusVars, engineVars, handData, shapeVars,
                                 staticVars, photoVars, tracker, upload>>]_vars

C20_Witness ==
    /\ lastOp = Op("onClick", "notFound")
    /\ ~isClosed
    /\ ~AnyFlagged
    /\ ~popupState.active /\ ~popupMesh.visible /\ Hidden = {}

C24_OneGestureFactor ==
    [][(lastOp'.op = "update" /\ handData.present) =>
           LET f == IF handData.isClosed THEN 3 ELSE 15
               raw == HandPos(handData)
               dt == uTime' - uTime
           IN  /\ smoothedHandPos' =
                      <<smoothedHandPos[1] + TDiv((raw[1] - smoothedHandPos[1]) * f, 100),
                        smoothedHandPos[2] + TDiv((raw[2] - smoothedHandPos[2]) * f, 100)>>
               /\ slerpFactor' = f
               /\ smoothedHandScale' = smoothedHandScale
                      + TDiv((FinalScale(handData.scale) - smoothedHandScale) * f, 100)
               /\ uState' = uState
                      + TDiv(((IF handData.isClosed THEN BlendScale ELSE 0) - uState) * dt,
                             2 * Second)]_vars

\* The first tick on the fist at (0.3, 0.7): 3 % of the way to (-8, -6).
C24_Witness ==
    /\ lastOp.op = "update"
    /\ isClosed /\ handData.isClosed
    /\ slerpFactor = 3
    /\ smoothedHandPos = <<-240, -180>>

\* C26: the gesture of a frame is Closed exactly when the mean distance from
\* the wrist to the finger tips 8, 12, 16, 20 is less than 1.3 times the mean
\* distance from the wrist to the knuckles 5, 9, 13, 17; at equality it is Open.
C26_ClosedIffTipsNear ==
    Len(tracker.results) > 0 =>
        LET f == tracker.results[1]
            tipSum == Dist3(f[8], f[0]) + Dist3(f[12], f[0])
                      + Dist3(f[16], f[0]) + Dist3(f[20], f[0])
            mcpSum == Dist3(f[5], f[0]) + Dist3(f[9], f[0])
                      + Dist3(f[13], f[0]) + Dist3(f[17], f[0])
        IN  tracker.isClosed <=> (10 * tipSum < 13 * mcpSum)

\* The frame with its tips at exactly 1.3 times the knuckle distance: Open.
C26_Witness ==
    /\ lastOp.op = "handleResults"
    /\ tracker.results = <<EdgeFrame>>
    /\ SumDist(EdgeFrame, TipIds) * 10 = SumDist(EdgeFrame, McpIds) * 13
    /\ ~tracker.isClosed

ParticleBuffers == <<aTargetPos, aColor, aRandom, aIsPhoto, aImgOffset, aID, aSize>>

\* C21: onClick and the popup's tick write no per-particle buffer; onClick
\* leaves the clock, the smoothed pose and the blend alone, and so does a tick
\* in which only updatePopup acts (no hand).
C21_FocusLeavesParticles ==
    [][/\ lastOp'.op \in {"onClick", "update"} => UNCHANGED ParticleBuffers
       /\ lastOp'.op = "onClick" => UNCHANGED <<Stabilized, uTime>>
       /\ (lastOp'.op = "update" /\ ~handData.present) => UNCHANGED Stabilized]_vars

\* A popup on a particle, ticked without a hand after the blend had moved.
C21_Witness ==
    /\ lastOp.op = "update"
    /\ ~handData.present
    /\ popupState.active /\ popupState.timer > 0
    /\ popupState.startPos.tPos = <<aTargetPos[3 * popupState.id + 1],
                                    aTargetPos[3 * popupState.id + 2],
                                    aTargetPos[3 * popupState.id + 3]>>
    /\ uState > 0

\* C22: the particle hidden for a popup is a flagged one, also after shape
\* changes and photo additions.
C22_HiddenParticleIsPhoto ==
    uClickedID # -1 => (uClickedID \in Ids /\ aIsPhoto[uClickedID] = 1)

\* A particle still hidden after a photo was added, another one unflagged.
C22_Witness ==
    /\ lastOp.op = "addPhotoToAtlas"
    /\ uClickedID # -1
    /\ \E r \in Ids : aIsPhoto[r] = 0

C27_InactiveMeansNothingHidden ==
    ~popupState.active => (uClickedID = -1 /\ Hidden = {} /\ ~popupMesh.visible)

\* A popup that ran to its end.
C27_Witness ==
    /\ lastOp.op = "update"
    /\ ~popupState.active
    /\ popupState.id \in Ids /\ popupState.timer >= totalDuration

\* C28: an activation during a running popup replaces it: the timer restarts
\* at 0, the start position is the new particle's, only the new particle is
\* hidden.  The timer then counts tick time, the popup is active only below
\* 1.5 s and, once over, has reached 1.5 s.
C28_ReactivationReplaces ==
    /\ [][/\ (lastOp'.op = "onClick" /\ lastOp'.arg = "activated" /\ popupState.active) =>
                 /\ popupState'.active /\ popupMesh'.visible
                 /\ popupState'.timer = 0
                 /\ popupState'.startPos = getParticlePos(popupState'.id)
                 /\ uClickedID' = popupState'.id
                 /\ Hidden' = {popupState'.id}
          /\ (lastOp'.op = "update" /\ popupState.active) =>
                 popupState'.timer = popupState.timer + (uTime' - uTime)]_vars
    /\ [](popupState.active => popupState.timer < totalDuration)
    /\ []((~popupState.active /\ popupState.id # -1) => popupState.timer >= totalDuration)

\* An activation while the previous popup was on its way (its last factor
\* is still there).
C28_Witness ==
    /\ lastOp = Op("onClick", "activated")
    /\ popupState.timer = 0
    /\ popupFactor > 0
    /\ uTime > 0

\* C29: for a batch whose images all load, under any interleaving of the
\* load and save callbacks, each file is added once in a slot of its own, a
\* row saved for a file carries the slot the file was drawn into, and the
\* completion toast is emitted exactly once, when all files have been added.
C29_BatchCompletesOnce ==
    LET added == {f \in Files : upload.slot[f] # -1} IN
    /\ upload.loadedCount = Cardinality(added)
    /\ \A f, g \in added : f # g => upload.slot[f] # upload.slot[g]
    /\ \A p \in upload.saved : p[1] = upload.slot[p[2]]
    /\ upload.toasts <= 1
    /\ upload.toasts >= 1 => upload.loadedCount = upload.totalFiles
    /\ (upload.totalFiles > 0 /\ \A f \in Files : upload.pc[f] \in {"idle", "done"}) =>
           upload.toasts = 1

\* C30: photoCount stays within [8, 64] and never decreases, the slot
\* addPhotoToAtlas returns is in [0, 64), and the slot of a popup or of a
\* photo particle is below photoCount.
C30_AtlasCountBounded ==
    /\ [](photoCount \in InitialPhotos .. maxAtlasSlots)
    /\ [][photoCount' >= photoCount]_vars
    /\ [](\A f \in Files : upload.slot[f] # -1 => upload.slot[f] \in 0 .. (maxAtlasSlots - 1))
    /\ [](\A i \in Ids : aIsPhoto[i] = 1 =>
              \E k \in 0 .. (photoCount - 1) : aImgOffset[i] = SlotOffset(k))
    /\ [](popupMesh.visible =>
              \E k \in 0 .. (photoCount - 1) : popupMesh.imgOffset = SlotOffset(k))

\* A photo added after the restore of slot 63: the slot wraps to 0 and the
\* count stays at 64; a popup shows the last slot.
C30_Witness ==
    /\ lastOp.op = "onClick" /\ popupMesh.visible
    /\ popupMesh.imgOffset = SlotOffset(maxAtlasSlots - 1)
    /\ photoCount = maxAtlasSlots
    /\ nextPhotoSlot = maxAtlasSlots + 1
    /\ \E f \in Files : upload.slot[f] = 0
====
